---- MODULE Spec2Model ----
(***************************************************************************)
(* Model of src/2/script.js: the camera-to-glyph transcoder.               *)
(*                                                                         *)
(* The program is single threaded.  Its handlers run to completion, so     *)
(* each handler (the getUserMedia continuation, video.onloadeddata, the    *)
(* window resize listener, the requestAnimationFrame callback) is one      *)
(* action.  draw() is the operator draw below; getColor and the glyph      *)
(* index are pure operators.                                               *)
(*                                                                         *)
(* Numbers.  JavaScript computes avg, lit and the band limits in doubles.  *)
(* The model keeps the exact rational by scaling: a brightness avg is      *)
(* carried as sum3 = r+g+b (avg = sum3/3), so avg > 15 is sum3 > 45, and   *)
(* floor((avg/255)*(N-1)) is (sum3*(N-1)) \div 765.  The double result     *)
(* equals the exact one for every sum3 in 0..765 when N <= 9 and when      *)
(* N = 11 (the program's palette); it differs for N = 10, sum3 = 425,      *)
(* which is why palette lengths are drawn from 2..MaxPalette and 11.       *)
(***************************************************************************)
EXTENDS Integers, Sequences, FiniteSets, TLC

VARIABLES
    camera,            \* "requesting" | "streaming" | "failed": getUserMedia
    onloadeddata,      \* video.onloadeddata is set
    loaded,            \* the loadeddata event has been delivered
    window,            \* <<innerWidth, innerHeight>>
    canvas,            \* <<canvas.width, canvas.height>>
    previousFrameData, \* [typed |-> is a Uint8ClampedArray, bytes |-> contents]
    pending,           \* requestAnimationFrame callbacks queued
    alerts,            \* alert() calls made so far
    running,           \* times draw() was entered from onloadeddata
    fresh,             \* history: no tick completed since start-up / last resize
    lastFrame,         \* history: frame of the last completed tick since then
    out,               \* what the last handler did (draw instructions are ephemeral)
    call               \* last application of a pure function (SpecPure)

vars == <<camera, onloadeddata, loaded, window, canvas, previousFrameData,
          pending, alerts, running, fresh, lastFrame, out, call>>

----------------------------------------------------------------------------
(* Configuration, script.js lines 6-9 *)

fontSize == 4

chars == <<" ", "@", "%", "#", "*", "+", "=", "-", ":", ".", " ">>

motionThreshold == 8

----------------------------------------------------------------------------
(* Bounds *)

MaxDim == 5

MaxPalette == 8

MaxSide == 7

\* Window sizes the host may report; a dimension may be 0.
Dims == {d \in (0..MaxDim) \X (0..MaxDim) : d[1] * d[2] <= MaxDim}

\* Pixels <<r, g, b, a>> a sampled cell may hold: a base, green +8 and +9 from
\* the base, and a dark one (avg <= 15) with the base's green and other r, b, a.
CellPixels == { <<20, 20, 20, 255>>, <<20, 28, 20, 255>>, <<20, 29, 20, 255>>,
                <<0, 20, 0, 0>> }

\* Pixels every unsampled position of a frame holds.
FillPixels == { <<0, 0, 0, 255>>, <<90, 120, 90, 255>> }

----------------------------------------------------------------------------
(* Helpers *)

Undefined == -1

Abs(n) == IF n < 0 THEN -n ELSE n

\* JavaScript a[i] on an array or typed array, 0-based; undefined outside.
Get(a, i) == IF i + 1 \in DOMAIN a THEN a[i + 1] ELSE Undefined

\* Number of loop iterations of `for (v = 0; v < limit; v += fontSize)`.
Steps(limit) == (limit + fontSize - 1) \div fontSize

\* The k-th cell (0-based) of the scan grid, y outer and x inner.
CellAt(k, cw) ==
    [x |-> (k % Steps(cw)) * fontSize, y |-> (k \div Steps(cw)) * fontSize]

----------------------------------------------------------------------------
(* Glyph selection, script.js lines 100-102 *)

\* Mutant of charIndex: Math.round in place of Math.floor.
charIndexRounded(sum3, n) == (2 * sum3 * (n - 1) + 765) \div (2 * 765)

\* Math.floor((avg / 255) * (n - 1)) with avg = sum3 / 3.
charIndex(sum3, n) == (sum3 * (n - 1)) \div 765

\* The 0-based palette position chars.length - 1 - charIndex.
charPos(sum3, n) == n - 1 - charIndex(sum3, n)

\* palette[palette.length - 1 - charIndex]; undefined outside the palette.
glyphFor(sum3, palette) == Get(palette, charPos(sum3, Len(palette)))

----------------------------------------------------------------------------
(* getColor, script.js lines 35-60 *)

\* Math.max(30, Math.min(80, (brightness / 255) * 100)), in units of 1/765 %.
litOf(sum3) ==
    LET raw == sum3 * 100
        lo  == 30 * 765
        hi  == 80 * 765
        capped == IF raw < hi THEN raw ELSE hi
    IN  IF capped > lo THEN capped ELSE lo

\* Mutant of inTopBand: y <= height / 3.
inTopBandInclusive(y, height) == 3 * y <= height

\* y < height / 3
inTopBand(y, height) == 3 * y < height

\* y < (height / 3) * 2
inMiddleBand(y, height) == 3 * y < 2 * height

\* Mutant of inChakra: dist <= height / 6.
inChakraInclusive(y, height, x, width) ==
    9 * ((2 * x - width) * (2 * x - width) + (2 * y - height) * (2 * y - height))
        <= height * height

\* Math.sqrt((x - cx)**2 + (y - cy)**2) < height / 6 with cx = width / 2 and
\* cy = height / 2: both sides are non-negative, so squared and scaled by 36.
inChakra(y, height, x, width) ==
    9 * ((2 * x - width) * (2 * x - width) + (2 * y - height) * (2 * y - height))
        < height * height

\* The hsl(h, s%, l%) string as the triple it is formatted from.
getColor(y, height, x, width, sum3) ==
    IF inTopBand(y, height)
    THEN [h |-> 25, s |-> 100, l |-> litOf(sum3)]
    ELSE IF inMiddleBand(y, height)
         THEN IF inChakra(y, height, x, width)
              THEN [h |-> 240, s |-> 100, l |-> litOf(sum3)]
              ELSE [h |-> 0, s |-> 0, l |-> litOf(sum3)]
         ELSE [h |-> 130, s |-> 90, l |-> litOf(sum3)]

----------------------------------------------------------------------------
(* draw, script.js lines 62-130 *)

\* Mutant of isMovingAt: diff >= motionThreshold.
isMovingAtInclusive(g, prevG) ==
    IF g = Undefined \/ prevG = Undefined
    THEN FALSE
    ELSE Abs(g - prevG) >= motionThreshold

\* Lines 93-96: diff = Math.abs(g - prevG); isMoving = diff > motionThreshold.
\* Math.abs(g - undefined) is NaN, and NaN > 8 is false.
isMovingAt(g, prevG) ==
    IF g = Undefined \/ prevG = Undefined
    THEN FALSE
    ELSE Abs(g - prevG) > motionThreshold

\* Mutant of reinit: the re-initialisation is left out.
reinitNever(prev, data) == prev

\* Lines 76-78: if the lengths differ, the history becomes a copy of the frame.
reinit(prev, data) ==
    IF Len(prev.bytes) # Len(data)
    THEN [typed |-> TRUE, bytes |-> data]
    ELSE prev

\* One iteration of the scan loop body (lines 83-119) for the k-th cell.
scanCell(k, cw, ch, data, hist) ==
    LET c     == CellAt(k - 1, cw)
        i     == (c.y * cw + c.x) * 4
        r     == Get(data, i)
        g     == Get(data, i + 1)
        b     == Get(data, i + 2)
        sum3  == IF r = Undefined \/ g = Undefined \/ b = Undefined
                 THEN Undefined ELSE r + g + b
        prevG == Get(hist, i + 1)
        isMoving == isMovingAt(g, prevG)
        drawn == sum3 # Undefined /\ sum3 > 45
    IN  [x |-> c.x, y |-> c.y, i |-> i, g |-> g, prevG |-> prevG,
         sum3 |-> sum3, isMoving |-> isMoving, drawn |-> drawn,
         char |-> IF drawn THEN glyphFor(sum3, chars) ELSE "",
         fillStyle |-> IF drawn THEN getColor(c.y, ch, c.x, cw, sum3)
                       ELSE [h |-> 0, s |-> 0, l |-> 0],
         globalAlpha |-> IF drawn THEN (IF isMoving THEN "1.0" ELSE "0.3") ELSE ""]

IsDrawn(c) == c.drawn

\* Mutant of typedSet: the history is not refreshed.
typedSetStale(target, source) == target

\* TypedArray.prototype.set(source): copies source over the start of target.
typedSet(target, source) ==
    source \o SubSeq(target, Len(source) + 1, Len(target))

\* draw() on the frame `data` that getImageData returns for a cw x ch canvas.
\* hostThrows: getImageData rejects a zero-sized rectangle with IndexSizeError
\* (the HTML standard); a capture source that does not hands over a
\* zero-length buffer instead.
draw(prev, cw, ch, data, hostThrows) ==
    LET hist  == reinit(prev, data)
        n     == Steps(cw) * Steps(ch)
        cells == [k \in 1..n |-> scanCell(k, cw, ch, data, hist.bytes)]
    IN  IF (cw = 0 \/ ch = 0) /\ hostThrows
        THEN [status |-> "IndexSizeError", previousFrameData |-> prev,
              histLen |-> Len(prev.bytes), cells |-> <<>>, emitted |-> <<>>,
              cleared |-> FALSE, scheduled |-> 0]
        ELSE IF ~hist.typed
        THEN \* [].set is not a function (line 125)
             [status |-> "TypeError", previousFrameData |-> hist,
              histLen |-> Len(hist.bytes), cells |-> cells,
              emitted |-> SelectSeq(cells, IsDrawn),
              cleared |-> TRUE, scheduled |-> 0]
        ELSE IF Len(data) > Len(hist.bytes)
        THEN [status |-> "RangeError", previousFrameData |-> hist,
              histLen |-> Len(hist.bytes), cells |-> cells,
              emitted |-> SelectSeq(cells, IsDrawn),
              cleared |-> TRUE, scheduled |-> 0]
        ELSE [status |-> "done",
              previousFrameData |->
                  [typed |-> TRUE, bytes |-> typedSet(hist.bytes, data)],
              histLen |-> Len(hist.bytes), cells |-> cells,
              emitted |-> SelectSeq(cells, IsDrawn),
              cleared |-> TRUE, scheduled |-> 1]

----------------------------------------------------------------------------
(* Frames the capture source may deliver *)

\* RGBA buffers of a cw x ch canvas, row-major: every sampled position holds
\* one of CellPixels, every other position the same one of FillPixels.
Frames(cw, ch) ==
    { [j \in 1..(cw * ch * 4) |->
          LET p == (j - 1) \div 4
              c == ((j - 1) % 4) + 1
              x == p % cw
              y == p \div cw
          IN  IF x % fontSize = 0 /\ y % fontSize = 0
              THEN px[(y \div fontSize) * Steps(cw) + (x \div fontSize) + 1][c]
              ELSE fill[c]]
      : fill \in FillPixels, px \in [1..(Steps(cw) * Steps(ch)) -> CellPixels] }

\* getImageData throws on a zero-sized rectangle; otherwise it cannot fail here.
HostChoices(cw, ch) == IF cw = 0 \/ ch = 0 THEN BOOLEAN ELSE {FALSE}

----------------------------------------------------------------------------
(* State machine *)

EmptyArray == [typed |-> FALSE, bytes |-> <<>>]

NoCall == [fn |-> "none", done |-> FALSE, args |-> <<>>, result |-> <<>>]

NoOut(op) ==
    [op |-> op, via |-> "", status |-> "none", data |-> <<>>, first |-> FALSE,
     prevFrame |-> <<>>, histLen |-> 0, cells |-> <<>>, emitted |-> <<>>,
     cleared |-> FALSE, scheduled |-> 0]

DrawOut(via, r, data, first, prevFrame) ==
    [op |-> "draw", via |-> via, status |-> r.status, data |-> data, first |-> first,
     prevFrame |-> prevFrame, histLen |-> r.histLen, cells |-> r.cells,
     emitted |-> r.emitted, cleared |-> r.cleared, scheduled |-> r.scheduled]

\* Mutant of handleResize: the history is not reset.
handleResizeKeep(win) == [canvas |-> win, previousFrameData |-> previousFrameData]

\* handleResize, lines 135-140, with win = <<innerWidth, innerHeight>>.
handleResize(win) == [canvas |-> win, previousFrameData |-> EmptyArray]

Init ==
    /\ camera = "requesting"
    /\ onloadeddata = FALSE
    /\ loaded = FALSE
    /\ window \in Dims
    /\ canvas \in Dims
    /\ previousFrameData = EmptyArray
    /\ pending = 0
    /\ alerts = 0
    /\ running = 0
    /\ fresh = TRUE
    /\ lastFrame = <<>>
    /\ out = NoOut("init")
    /\ call = NoCall

\* startCamera, lines 16-27: the stream is granted and the handler installed.
GetUserMediaResolves ==
    /\ camera = "requesting"
    /\ camera' = "streaming"
    /\ onloadeddata' = TRUE
    /\ out' = NoOut("startCamera")
    /\ UNCHANGED <<loaded, window, canvas, previousFrameData, pending, alerts,
                   running, fresh, lastFrame, call>>

\* startCamera, lines 28-30: acquisition fails, the catch block alerts.
GetUserMediaRejects ==
    /\ camera = "requesting"
    /\ camera' = "failed"
    /\ alerts' = alerts + 1
    /\ out' = NoOut("alert")
    /\ UNCHANGED <<onloadeddata, loaded, window, canvas, previousFrameData,
                   pending, running, fresh, lastFrame, call>>

\* video.onloadeddata, lines 24-27: handleResize(); draw();  The event is
\* delivered once for the one assignment of video.srcObject.
LoadedData ==
    /\ onloadeddata
    /\ ~loaded
    /\ loaded' = TRUE
    /\ running' = running + 1
    /\ LET hr == handleResize(window)
           cw == hr.canvas[1]
           ch == hr.canvas[2]
       IN  \E data \in Frames(cw, ch), hostThrows \in HostChoices(cw, ch) :
             LET r == draw(hr.previousFrameData, cw, ch, data, hostThrows)
             IN  /\ canvas' = hr.canvas
                 /\ previousFrameData' = r.previousFrameData
                 /\ pending' = pending + r.scheduled
                 /\ fresh' = (r.status # "done")
                 /\ lastFrame' = IF r.status = "done" THEN data ELSE <<>>
                 /\ out' = DrawOut("onloadeddata", r, data, TRUE, <<>>)
    /\ UNCHANGED <<camera, onloadeddata, window, alerts, call>>

\* The requestAnimationFrame callback, line 129: draw().
AnimationFrame ==
    /\ pending > 0
    /\ \E data \in Frames(canvas[1], canvas[2]),
          hostThrows \in HostChoices(canvas[1], canvas[2]) :
         LET r == draw(previousFrameData, canvas[1], canvas[2], data, hostThrows)
         IN  /\ previousFrameData' = r.previousFrameData
             /\ pending' = pending - 1 + r.scheduled
             /\ fresh' = IF r.status = "done" THEN FALSE ELSE fresh
             /\ lastFrame' = IF r.status = "done" THEN data ELSE lastFrame
             /\ out' = DrawOut("requestAnimationFrame", r, data, fresh, lastFrame)
    /\ UNCHANGED <<camera, onloadeddata, loaded, window, canvas, alerts,
                   running, call>>

\* Mutant of Resize: the listener also starts draw().
ResizeRedraws ==
    /\ \E d \in Dims :
         LET hr == handleResize(d)
         IN  \E data \in Frames(d[1], d[2]), hostThrows \in HostChoices(d[1], d[2]) :
               LET r == draw(hr.previousFrameData, d[1], d[2], data, hostThrows)
               IN  /\ window' = d
                   /\ canvas' = hr.canvas
                   /\ previousFrameData' = r.previousFrameData
                   /\ pending' = pending + r.scheduled
                   /\ fresh' = (r.status # "done")
                   /\ lastFrame' = IF r.status = "done" THEN data ELSE <<>>
                   /\ out' = DrawOut("resize", r, data, TRUE, <<>>)
    /\ UNCHANGED <<camera, onloadeddata, loaded, alerts, running, call>>

\* The window resize listener, line 141: the window takes a size, handleResize().
Resize ==
    /\ \E d \in Dims :
         LET hr == handleResize(d)
         IN  /\ window' = d
             /\ canvas' = hr.canvas
             /\ previousFrameData' = hr.previousFrameData
    /\ fresh' = TRUE
    /\ lastFrame' = <<>>
    /\ out' = NoOut("handleResize")
    /\ UNCHANGED <<camera, onloadeddata, loaded, pending, alerts, running, call>>

Next ==
    \/ GetUserMediaResolves
    \/ GetUserMediaRejects
    \/ LoadedData
    \/ AnimationFrame
    \/ Resize

Spec == Init /\ [][Next]_vars

----------------------------------------------------------------------------
(* The pure functions on their own: the inputs are drawn by InitPure and    *)
(* each action applies one function to them.                                *)

\* Palette lengths: 2..MaxPalette and the program's own.
PaletteLengths == (2..MaxPalette) \cup {Len(chars)}

\* Frame sides: 1..MaxSide and the 300 of the documented examples.
Sides == (1..MaxSide) \cup {300}

\* Brightness as r+g+b: black, mid, white.
Brights == {0, 384, 765}

GlyphInput(c) ==
    \E sum3 \in 0..765, n \in PaletteLengths :
        c = [fn |-> "glyph", done |-> FALSE, args |-> <<sum3, n>>, result |-> <<>>]

ColorInput(c) ==
    \E width \in Sides, height \in Sides :
        \E x \in 0..(width - 1), y \in 0..(height - 1), sum3 \in Brights :
            c = [fn |-> "getColor", done |-> FALSE,
                 args |-> <<y, height, x, width, sum3>>, result |-> <<>>]

InitPure ==
    /\ camera = "requesting"
    /\ onloadeddata = FALSE
    /\ loaded = FALSE
    /\ window = <<0, 0>>
    /\ canvas = <<0, 0>>
    /\ previousFrameData = EmptyArray
    /\ pending = 0
    /\ alerts = 0
    /\ running = 0
    /\ fresh = TRUE
    /\ lastFrame = <<>>
    /\ out = NoOut("init")
    /\ (GlyphInput(call) \/ ColorInput(call))

GlyphCall ==
    /\ call.fn = "glyph"
    /\ ~call.done
    /\ call' = [call EXCEPT !.done = TRUE,
                  !.result = [charIndex |-> charIndex(call.args[1], call.args[2]),
                              pos |-> charPos(call.args[1], call.args[2])]]
    /\ UNCHANGED <<camera, onloadeddata, loaded, window, canvas,
                   previousFrameData, pending, alerts, running, fresh,
                   lastFrame, out>>

ColorCall ==
    /\ call.fn = "getColor"
    /\ ~call.done
    /\ call' = [call EXCEPT !.done = TRUE,
                  !.result = getColor(call.args[1], call.args[2], call.args[3],
                                      call.args[4], call.args[5])]
    /\ UNCHANGED <<camera, onloadeddata, loaded, window, canvas,
                   previousFrameData, pending, alerts, running, fresh,
                   lastFrame, out>>

NextPure ==
    \/ GlyphCall
    \/ ColorCall

SpecPure == InitPure /\ [][NextPure]_vars

----------------------------------------------------------------------------
(* Properties *)

\* A tick whose scan loop was reached (the frame was obtained).
Scanned == out.op = "draw" /\ out.cleared

\* A tick that ran to its last line.
Completed == out.op = "draw" /\ out.status = "done"

\* The green sample of the frame `f` at the cell `c`.
GreenOf(f, c) == Get(f, c.i + 1)

(* C1: in the first tick after start-up or after a resize notification,    *)
(* every cell is classified as not moving, whatever the pixels are.        *)
FirstTickIsStatic ==
    (out.op = "draw" /\ out.first) =>
        \A k \in DOMAIN out.cells : ~out.cells[k].isMoving

\* A first tick after a resize (not the start-up one) that classified two cells.
FirstTickAfterResizeSeen ==
    /\ Completed
    /\ out.first
    /\ out.via = "requestAnimationFrame"
    /\ Len(out.cells) = 2

(* C2: after every completed tick the history buffer is a copy of that     *)
(* tick's frame, and a tick that is not the first after start-up or a      *)
(* resize compared every cell with the frame of the preceding tick.        *)
HistoryIsPrecedingFrame ==
    Completed =>
        /\ previousFrameData.bytes = out.data
        /\ lastFrame = out.data
        /\ ~out.first =>
              /\ out.histLen = Len(out.prevFrame)
              /\ \A k \in DOMAIN out.cells :
                    out.cells[k].prevG = GreenOf(out.prevFrame, out.cells[k])

\* A later tick whose frame differs from the preceding one in a sampled green.
SecondTickSeen ==
    /\ Completed
    /\ ~out.first
    /\ Len(out.cells) = 2
    /\ \E k \in DOMAIN out.cells :
          GreenOf(out.data, out.cells[k]) # GreenOf(out.prevFrame, out.cells[k])

(* C3: between two consecutive frames of equal dimensions a cell is moving *)
(* exactly when its green sample changed by more than 8; a change of 9     *)
(* flags, a change of 8 does not, and red, blue and alpha do not count.    *)
MovingIffGreenDelta ==
    (Scanned /\ ~out.first) =>
        \A k \in DOMAIN out.cells :
            LET now  == GreenOf(out.data, out.cells[k])
                then == GreenOf(out.prevFrame, out.cells[k])
            IN  out.cells[k].isMoving <=> (now - then > 8 \/ then - now > 8)

\* One cell changed its green by exactly 9 and is the only one flagged; the
\* other changed green by exactly 8 together with red, blue and alpha.
DeltaNineAndEightSeen ==
    /\ Completed
    /\ ~out.first
    /\ Len(out.cells) = 2
    /\ Abs(GreenOf(out.data, out.cells[1]) - GreenOf(out.prevFrame, out.cells[1])) = 9
    /\ out.cells[1].isMoving
    /\ Abs(GreenOf(out.data, out.cells[2]) - GreenOf(out.prevFrame, out.cells[2])) = 8
    /\ Get(out.data, out.cells[2].i) # Get(out.prevFrame, out.cells[2].i)
    /\ Get(out.data, out.cells[2].i + 3) # Get(out.prevFrame, out.cells[2].i + 3)
    /\ ~out.cells[2].isMoving

(* C4: when frame capture fails, at start-up or inside a tick, no tick is  *)
(* pending, no draw instruction was emitted and the user was alerted once. *)
CaptureFailureSurfacedOnce ==
    (camera = "failed" \/ (out.op = "draw" /\ out.status = "IndexSizeError")) =>
        /\ pending = 0
        /\ out.emitted = <<>>
        /\ alerts = 1

(* C5: a tick on a zero-length frame buffer samples nothing, emits nothing, *)
(* completes and leaves the next tick scheduled.                           *)
EmptyFrameTickCompletes ==
    (out.op = "draw" /\ Len(out.data) = 0) =>
        /\ out.cells = <<>>
        /\ out.emitted = <<>>
        /\ out.status = "done"
        /\ pending = 1

(* C6: the glyph position is N-1-idx with idx the floor of (avg/255)*(N-1); *)
(* it lies in 0..N-1, is N-1 for brightness 0 and 0 for brightness 255.    *)
GlyphIndexInverted ==
    (call.fn = "glyph" /\ call.done) =>
        LET sum3 == call.args[1]
            n    == call.args[2]
            pos  == call.result.pos
            idx  == n - 1 - pos
        IN  /\ pos \in 0..(n - 1)
            /\ idx * 765 <= sum3 * (n - 1)
            /\ sum3 * (n - 1) < (idx + 1) * 765
            /\ (sum3 = 0 => pos = n - 1)
            /\ (sum3 = 765 => pos = 0)

\* Brightness 255 on the program's palette selects position 0.
BrightestGlyphSeen ==
    /\ call.fn = "glyph"
    /\ call.done
    /\ call.args = <<765, Len(chars)>>
    /\ call.result.pos = 0

\* The cell of a getColor call lies in the middle band.
CallInMiddleBand ==
    /\ call.fn = "getColor"
    /\ call.done
    /\ call.args[2] <= 3 * call.args[1]
    /\ 3 * call.args[1] < 2 * call.args[2]

\* 36 * dist^2 < height^2 for the cell of a getColor call.
CallNearCentre ==
    LET dx2 == 2 * call.args[3] - call.args[4]
        dy2 == 2 * call.args[1] - call.args[2]
    IN  36 * (dx2 * dx2 + dy2 * dy2) < 4 * call.args[2] * call.args[2]

CallAt(x, y, side) ==
    /\ call.args[1] = y
    /\ call.args[2] = side
    /\ call.args[3] = x
    /\ call.args[4] = side

CallNavy == call.result.h = 240 /\ call.result.s = 100

CallGrey == call.result.s = 0

(* C7 as stated: in the middle band the colour is navy exactly when the    *)
(* distance to the centre is below height/6; at 300 x 300 the cell         *)
(* (150,150) is navy and the cell (150,101) is grey.                       *)
ChakraAsStated ==
    CallInMiddleBand =>
        /\ CallNavy <=> CallNearCentre
        /\ CallGrey <=> ~CallNearCentre
        /\ CallAt(150, 150, 300) => CallNavy
        /\ CallAt(150, 101, 300) => CallGrey

(* C7 amended: in the middle band the colour is navy exactly when the      *)
(* distance to the centre is below height/6; at 300 x 300 the cells        *)
(* (150,150) and (150,101) are navy and the cell (150,100) is grey.        *)
ChakraByDistance ==
    CallInMiddleBand =>
        /\ CallNavy <=> CallNearCentre
        /\ CallGrey <=> ~CallNearCentre
        /\ CallAt(150, 150, 300) => CallNavy
        /\ CallAt(150, 101, 300) => CallNavy
        /\ CallAt(150, 100, 300) => CallGrey

\* getColor was applied to the cell (150,101) of a 300 x 300 frame.
ChakraEdgeSeen ==
    /\ CallInMiddleBand
    /\ CallAt(150, 101, 300)
    /\ CallNavy

(* C8: the band of a cell is fixed by its row alone: top for y < height/3, *)
(* middle for height/3 <= y < 2*height/3, bottom below; at height 300 row  *)
(* 99 is top, rows 100 and 199 are middle and row 200 is bottom.           *)
BandByRow ==
    (call.fn = "getColor" /\ call.done) =>
        LET y      == call.args[1]
            height == call.args[2]
            top    == call.result.h = 25
            middle == call.result.h \in {0, 240}
            bottom == call.result.h = 130
        IN  /\ top <=> y <= (height - 1) \div 3
            /\ bottom <=> y >= (2 * height + 2) \div 3
            /\ middle <=> ~(y <= (height - 1) \div 3) /\ ~(y >= (2 * height + 2) \div 3)
            /\ (height = 300 /\ y = 99) => top
            /\ (height = 300 /\ y \in {100, 199}) => middle
            /\ (height = 300 /\ y = 200) => bottom

\* getColor was applied to row 100 of a frame of height 300.
BandEdgeSeen ==
    /\ call.fn = "getColor"
    /\ call.done
    /\ call.args[1] = 100
    /\ call.args[2] = 300
    /\ call.result.h \in {0, 240}

(* C9: a resize leaves the history empty; in every tick the history has    *)
(* the frame's length while the cells are classified, no history sample is *)
(* read outside it, and it has the frame's length when the tick completes. *)
HistoryLengthIsFrameLength ==
    /\ out.op = "handleResize" => previousFrameData.bytes = <<>>
    /\ Scanned =>
          /\ out.histLen = Len(out.data)
          /\ \A k \in DOMAIN out.cells :
                /\ out.cells[k].i + 1 < out.histLen
                /\ out.cells[k].prevG # Undefined
    /\ Completed => Len(previousFrameData.bytes) = Len(out.data)

\* The first tick after a resize found the history reallocated to 20 bytes.
ReallocatedAfterResizeSeen ==
    /\ Completed
    /\ out.first
    /\ out.via = "requestAnimationFrame"
    /\ out.histLen = 20
    /\ Len(out.cells) = 2

(* C10: draw() is entered from the loaded-data callback once, at most one  *)
(* tick is pending at any time, and every completed tick leaves exactly    *)
(* one successor pending.                                                  *)
SingleTickChain ==
    /\ running <= 1
    /\ pending <= 1
    /\ pending = 1 => running = 1
    /\ Completed => (out.scheduled = 1 /\ pending = 1)

\* A tick completed after a resize arrived between two ticks.
ChainSurvivesResizeSeen ==
    /\ Completed
    /\ out.via = "requestAnimationFrame"
    /\ out.first
    /\ pending = 1
    /\ running = 1

====
